---------------------------- MODULE Spec2Model ----------------------------
(***************************************************************************)
(* A model of the incremental discovery engine of scrape_steamrip.py: the  *)
(* SQLite store (runs, run_games, games), run_persist, the two JSON        *)
(* artifacts (All.Games.json, New.Games.json) and main's projection of     *)
(* them.                                                                   *)
(*                                                                         *)
(* Strings are sequences: a url is a sequence of one-character strings, a  *)
(* name is a sequence of code points (so that str.lower and the ordering   *)
(* of str can be computed).  A table is the sequence of its rows in rowid  *)
(* order.  The store is held twice: db is what is durable (committed),     *)
(* conn is what the open connection sees (db plus its pending              *)
(* transaction).                                                           *)
(***************************************************************************)
EXTENDS Integers, Sequences, FiniteSets, TLC

VARIABLES
    db,           \* the durable content of steamrip_games.db
    conn,         \* the content seen through the open connection
    allFile,      \* All.Games.json
    newFile,      \* New.Games.json
    clock,        \* number of readings of datetime.now so far
    pc,           \* position of the running call
    results,      \* the batch handed to run_persist (main: scrape's result)
    run_id,       \* run_persist: run_id
    run_at,       \* run_persist: run_at
    first_run,    \* run_persist: first_run
    new_entries,  \* run_persist: new_entries; save_new_games_file: new_entries
    pending,      \* the list a save_* call has computed and is about to dump
    pre,          \* history: db, allFile and newFile when the current call began
    touched,      \* history: the artifacts opened for writing by the current call, and
                  \* "repeat" when the call repeats the arguments of the call before it
    created,      \* history: <<run id, url>> of every row run_persist inserted into games
    began,        \* history: began[r] is the number of games when run r began
    html,         \* extract_games_from_html: the anchors the pattern matches in html
    raw_text,     \* clean_name: raw_text
    text          \* clean_name: the values returned so far

vars == <<db, conn, allFile, newFile, clock, pc, results, run_id, run_at,
          first_run, new_entries, pending, pre, touched, created, began,
          html, raw_text, text>>

-----------------------------------------------------------------------------
(* Bounds of the model *)

MaxBatch == 2
MaxRuns == 3

-----------------------------------------------------------------------------
(* Strings *)

\* mutant of rstrip: nothing is stripped
rstrip_nothing(s) == s

\* str.rstrip("/"): every trailing slash is removed
RECURSIVE rstrip(_)
rstrip(s) ==
    IF s # <<>> /\ s[Len(s)] = "/" THEN rstrip(SubSeq(s, 1, Len(s) - 1)) ELSE s

\* one character of str.lower (ASCII letters)
LowerChar(c) == IF c >= 65 /\ c <= 90 THEN c + 32 ELSE c

\* str.lower
lower(s) == [i \in 1..Len(s) |-> LowerChar(s[i])]

\* the order of str: s < t
RECURSIVE StrLess(_, _)
StrLess(s, t) ==
    IF t = <<>> THEN FALSE
    ELSE IF s = <<>> THEN TRUE
    ELSE IF s[1] # t[1] THEN s[1] < t[1]
    ELSE StrLess(Tail(s), Tail(t))

-----------------------------------------------------------------------------
(* Inputs *)

\* display names: "B" and "a" (their case-insensitive order is not their order)
Names == {<<66>>, <<97>>}

\* urls as scrape and extract_games_from_html produce them: non-empty, no trailing slash
Hrefs == {<<"a">>, <<"b">>, <<"c">>}

\* urls as a direct caller of run_persist may pass them
RawUrls == {<<>>, <<"/", "/">>, <<"a">>, <<"a", "/">>, <<"b">>}

Game(n, u) == [Name |-> n, Url |-> u]

SeqsUpTo(S, n) == UNION {[1..k -> S] : k \in 0..n}

DistinctUrls(s) == \A i, j \in 1..Len(s) : s[i].Url = s[j].Url => i = j

\* what scrape returns: records with a non-empty Name and Url, one per url
ScrapeResults ==
    {s \in SeqsUpTo({Game(n, u) : n \in Names, u \in Hrefs}, MaxBatch) : DistinctUrls(s)}

\* what a direct caller may pass to run_persist
AnyResults == SeqsUpTo({Game(n, u) : n \in Names, u \in RawUrls}, MaxBatch)

\* what a direct caller may pass to save_new_games_file: lists that may repeat a url
AnyEntries == SeqsUpTo({Game(n, u) : n \in Names, u \in {<<"a">>, <<"b">>}}, MaxBatch)

-----------------------------------------------------------------------------
(* The store *)

\* the three tables after init_db on a new file
EmptyDb == [runs |-> <<>>, run_games |-> <<>>, games |-> <<>>]

Urls(games) == {games[i].Url : i \in 1..Len(games)}

get_games_count(c) == Len(c.games)

\* mutant of create_run: no runs row is inserted
create_run_unrecorded(c, at, snapshot_count) == c

\* INSERT INTO runs: AUTOINCREMENT ids are 1, 2, ... since no run row is ever deleted
create_run(c, at, snapshot_count) ==
    [c EXCEPT !.runs = Append(@, [id |-> Len(@) + 1, run_at |-> at,
                                  snapshot_count |-> snapshot_count])]

insert_run_game(c, rid, name, url, is_new) ==
    [c EXCEPT !.run_games = Append(@, [run_id |-> rid, Name |-> name, Url |-> url,
                                       is_new |-> is_new])]

\* mutant of update_game_last_seen: first_seen is set too
update_game_last_seen_and_first(c, url, seen_at) ==
    [c EXCEPT !.games = [i \in 1..Len(@) |->
        IF @[i].Url = url THEN [@[i] EXCEPT !.last_seen = seen_at, !.first_seen = seen_at]
        ELSE @[i]]]

\* mutant of update_game_last_seen: the rows of other urls are lost
update_game_last_seen_only(c, url, seen_at) ==
    [c EXCEPT !.games = SelectSeq(@, LAMBDA g : g.Url = url)]

update_game_last_seen(c, url, seen_at) ==
    [c EXCEPT !.games = [i \in 1..Len(@) |->
        IF @[i].Url = url THEN [@[i] EXCEPT !.last_seen = seen_at] ELSE @[i]]]

\* INSERT OR IGNORE (Url is UNIQUE), then UPDATE last_seen
insert_game(c, name, url, seen_at) ==
    LET ins == IF url \in Urls(c.games) THEN c
               ELSE [c EXCEPT !.games = Append(@, [Name |-> name, Url |-> url,
                                                    first_seen |-> seen_at,
                                                    last_seen |-> seen_at])]
    IN update_game_last_seen(ins, url, seen_at)


-----------------------------------------------------------------------------
(* run_persist *)

\* mutant of FirstRun: the comparison is inverted
FirstRun_inverted(pre_count) == pre_count # 0

\* first_run = (pre_count == 0)
FirstRun(pre_count) == pre_count = 0

\* mutant of IsNewFlag: every created entry is flagged, whatever first_run is
IsNewFlag_always(fr) == TRUE

\* is_new_flag = False if first_run else True
IsNewFlag(fr) == IF fr THEN FALSE ELSE TRUE

\* mutant of PersistOne: a re-observed entry is reported as new too
PersistOne_reobserved_new(acc, g, rid, at, fr) ==
    LET name == g.Name
        url == rstrip(g.Url)
    IN  IF url = <<>> THEN acc
        ELSE IF url \in Urls(acc.c.games)
        THEN [c |-> insert_run_game(update_game_last_seen(acc.c, url, at),
                                    rid, name, url, FALSE),
              ne |-> IF IsNewFlag(fr) THEN Append(acc.ne, Game(name, url)) ELSE acc.ne]
        ELSE [c |-> insert_run_game(insert_game(acc.c, name, url, at),
                                    rid, name, url, IsNewFlag(fr)),
              ne |-> IF IsNewFlag(fr) THEN Append(acc.ne, Game(name, url)) ELSE acc.ne]

\* mutant of PersistOne: a re-observed entry takes the name it is observed with
PersistOne_renames(acc, g, rid, at, fr) ==
    LET name == g.Name
        url == rstrip(g.Url)
        renamed == [acc.c EXCEPT !.games = [i \in 1..Len(@) |->
                       IF @[i].Url = url THEN [@[i] EXCEPT !.Name = name] ELSE @[i]]]
    IN  IF url = <<>> THEN acc
        ELSE IF url \in Urls(acc.c.games)
        THEN [acc EXCEPT !.c = insert_run_game(update_game_last_seen(renamed, url, at),
                                               rid, name, url, FALSE)]
        ELSE [c |-> insert_run_game(insert_game(acc.c, name, url, at),
                                    rid, name, url, IsNewFlag(fr)),
              ne |-> IF IsNewFlag(fr) THEN Append(acc.ne, Game(name, url)) ELSE acc.ne]

\* mutant of PersistOne: the run_games row of a re-observed entry is flagged like that
\* of an inserted one
PersistOne_flags_reobserved(acc, g, rid, at, fr) ==
    LET name == g.Name
        url == rstrip(g.Url)
    IN  IF url = <<>> THEN acc
        ELSE IF url \in Urls(acc.c.games)
        THEN [acc EXCEPT !.c = insert_run_game(update_game_last_seen(@, url, at),
                                               rid, name, url, IsNewFlag(fr))]
        ELSE [c |-> insert_run_game(insert_game(acc.c, name, url, at),
                                    rid, name, url, IsNewFlag(fr)),
              ne |-> IF IsNewFlag(fr) THEN Append(acc.ne, Game(name, url)) ELSE acc.ne]

\* one pass of the loop body over candidate g; acc = [c: the connection's view,
\* ne: new_entries]
PersistOne(acc, g, rid, at, fr) ==
    LET name == g.Name
        url == rstrip(g.Url)
    IN  IF url = <<>> THEN acc
        ELSE IF url \in Urls(acc.c.games)
        THEN [acc EXCEPT !.c = insert_run_game(update_game_last_seen(@, url, at),
                                               rid, name, url, FALSE)]
        ELSE [c |-> insert_run_game(insert_game(acc.c, name, url, at),
                                    rid, name, url, IsNewFlag(fr)),
              ne |-> IF IsNewFlag(fr) THEN Append(acc.ne, Game(name, url)) ELSE acc.ne]

\* for g in results: the loop from candidate i on
RECURSIVE PersistFrom(_, _, _, _, _, _)
PersistFrom(acc, res, i, rid, at, fr) ==
    IF i > Len(res) THEN acc
    ELSE PersistFrom(PersistOne(acc, res[i], rid, at, fr), res, i + 1, rid, at, fr)

-----------------------------------------------------------------------------
(* clean_name; strings are sequences of code points, of one line *)

\* the white space of str.strip() and of \s
WhiteSpace == {9, 10, 11, 12, 13, 32}

\* the number of leading, and of trailing, characters of s that are in chars
Leading(s, chars) == Cardinality({i \in 1..Len(s) : \A j \in 1..i : s[j] \in chars})
Trailing(s, chars) == Cardinality({i \in 1..Len(s) : \A j \in i..Len(s) : s[j] \in chars})

\* str.strip(chars)
strip(s, chars) ==
    IF Leading(s, chars) = Len(s) THEN <<>>
    ELSE SubSeq(s, Leading(s, chars) + 1, Len(s) - Trailing(s, chars))

\* s holds word at index i, letter case ignored
HasWordAt(s, i, word) ==
    /\ i + Len(word) - 1 <= Len(s)
    /\ \A k \in 1..Len(word) : LowerChar(s[i + k - 1]) = word[k]

\* s[i..j-1] is white space
AllSpace(s, i, j) == \A k \in i..(j - 1) : s[k] \in WhiteSpace

\* \s*free\s+download.*$ matches s from index i to the end
FreeDownloadAt(s, i) ==
    \E j \in i..Len(s) :
        /\ AllSpace(s, i, j)
        /\ HasWordAt(s, j, <<102, 114, 101, 101>>)              \* "free"
        /\ \E k \in (j + 5)..Len(s) :
               /\ AllSpace(s, j + 4, k)
               /\ HasWordAt(s, k, <<100, 111, 119, 110, 108, 111, 97, 100>>)   \* "download"

\* \s*\(.*?\)\s*$ matches s from index i to the end
ParenthesesAt(s, i) ==
    \E j \in i..Len(s) :
        /\ AllSpace(s, i, j)
        /\ s[j] = 40                                   \* "("
        /\ \E k \in (j + 1)..Len(s) :
               s[k] = 41 /\ AllSpace(s, k + 1, Len(s) + 1)   \* ")"

\* re.sub of a pattern that ends in $: s up to the leftmost match, s when there is none
CutAtFirst(s, starts) ==
    IF starts = {} THEN s
    ELSE SubSeq(s, 1, (CHOOSE i \in starts : \A j \in starts : i <= j) - 1)

\* re.sub(r"\s+", " ", s)
RECURSIVE CollapseSpace(_)
CollapseSpace(s) ==
    IF s = <<>> THEN <<>>
    ELSE IF Head(s) \in WhiteSpace
         THEN <<32>> \o CollapseSpace(SubSeq(s, Leading(s, WhiteSpace) + 1, Len(s)))
         ELSE <<Head(s)>> \o CollapseSpace(Tail(s))

\* html.unescape for the one character reference the inputs hold: "&amp", with or
\* without its ";", becomes "&"; the text put in place is not scanned again
RECURSIVE unescape(_)
unescape(s) ==
    IF s = <<>> THEN <<>>
    ELSE IF Head(s) = 38 /\ Len(s) >= 4 /\ SubSeq(s, 2, 4) = <<97, 109, 112>>    \* "&" "amp"
         THEN <<38>> \o unescape(SubSeq(s, IF Len(s) >= 5 /\ s[5] = 59 THEN 6 ELSE 5,
                                        Len(s)))
         ELSE <<Head(s)>> \o unescape(Tail(s))

\* clean_name(raw_text)
clean_name(s) ==
    LET t1 == strip(s, WhiteSpace)
        t2 == strip(CutAtFirst(t1, {i \in 1..Len(t1) : FreeDownloadAt(t1, i)}),
                    WhiteSpace)
        t3 == strip(CutAtFirst(t2, {i \in 1..Len(t2) : ParenthesesAt(t2, i)}),
                    WhiteSpace)
        t4 == strip(CollapseSpace(t3), {32, 45, 8211, 43, 44, 58})   \* ' -–+,:'
    IN  IF s = <<>> THEN <<>> ELSE unescape(t4)

-----------------------------------------------------------------------------

(* extract_games_from_html; html is the sequence of the anchors its pattern matches,
   each the href (group 1) and the text (group 2) of a match, in document order *)

\* str.lstrip(chars) and str.rstrip(chars) on code points
lstrip_chars(s, chars) == SubSeq(s, Leading(s, chars) + 1, Len(s))
rstrip_chars(s, chars) == SubSeq(s, 1, Len(s) - Trailing(s, chars))

\* href of extract_games_from_html: a raw_href that starts with "/" has its leading
\* slashes stripped and "https://steamrip.com" put in front; trailing slashes go
href_of(raw_href) ==
    rstrip_chars(IF raw_href # <<>> /\ raw_href[1] = 47
                 THEN <<104, 116, 116, 112, 115, 58, 47, 47, 115, 116, 101, 97, 109, 114, 105, 112, 46, 99, 111, 109>>   \* "https://steamrip.com"
                          \o lstrip_chars(raw_href, {47})
                 ELSE raw_href,
                 {47})

\* href.rstrip("/").split("/")[-1]
slug(href) ==
    LET h == rstrip_chars(href, {47})
        n == Cardinality({i \in 1..Len(h) : \A j \in i..Len(h) : h[j] # 47})
    IN  SubSeq(h, Len(h) - n + 1, Len(h))

\* re.sub(r'-free-download$', '', slug, flags=re.I)
slug_name(s) ==
    LET marker == <<45, 102, 114, 101, 101, 45, 100, 111, 119, 110, 108, 111, 97, 100>>   \* "-free-download"
    IN  IF Len(s) >= Len(marker) /\ HasWordAt(s, Len(s) - Len(marker) + 1, marker)
        THEN SubSeq(s, 1, Len(s) - Len(marker))
        ELSE s

\* slug_name.replace("-", " ").strip()
NameFromSlug(href) ==
    LET sn == slug_name(slug(href))
    IN  strip([i \in 1..Len(sn) |-> IF sn[i] = 45 THEN 32 ELSE sn[i]], WhiteSpace)

\* name of extract_games_from_html: clean_name of the stripped text, else from the slug
name_of(a) ==
    LET name == clean_name(strip(a.text, WhiteSpace))
    IN  IF name = <<>> THEN NameFromSlug(href_of(strip(a.href, WhiteSpace))) ELSE name

\* mutant of Skipped: no anchor is skipped
Skipped_never(a) == FALSE

\* the anchors the loop passes over: no raw_href, or no name, or no href
Skipped(a) ==
    \/ strip(a.href, WhiteSpace) = <<>>
    \/ name_of(a) = <<>>
    \/ href_of(strip(a.href, WhiteSpace)) = <<>>

\* seen of extract_games_from_html: the urls of results
seen(res) == {res[k].Url : k \in 1..Len(res)}

\* mutant of ExtractFrom: a later anchor replaces the record of its url
RECURSIVE ExtractFrom_last_wins(_, _, _)
ExtractFrom_last_wins(anchors, i, res) ==
    IF i > Len(anchors) THEN res
    ELSE LET a == anchors[i]
             href == href_of(strip(a.href, WhiteSpace))
         IN  IF Skipped(a) THEN ExtractFrom_last_wins(anchors, i + 1, res)
             ELSE IF href \in seen(res)
             THEN ExtractFrom_last_wins(anchors, i + 1,
                      [k \in 1..Len(res) |-> IF res[k].Url = href
                                              THEN Game(name_of(a), href) ELSE res[k]])
             ELSE ExtractFrom_last_wins(anchors, i + 1, Append(res, Game(name_of(a), href)))

\* the loop of extract_games_from_html from the i-th match on; res is results
RECURSIVE ExtractFrom(_, _, _)
ExtractFrom(anchors, i, res) ==
    IF i > Len(anchors) THEN res
    ELSE LET a == anchors[i]
             href == href_of(strip(a.href, WhiteSpace))
         IN  IF Skipped(a) \/ href \in seen(res)
             THEN ExtractFrom(anchors, i + 1, res)
             ELSE ExtractFrom(anchors, i + 1, Append(res, Game(name_of(a), href)))

extract_games_from_html(anchors) == ExtractFrom(anchors, 1, <<>>)

-----------------------------------------------------------------------------

(* The JSON artifacts *)

Absent == [st |-> "absent", data |-> <<>>]
\* a file opened with mode "w" whose json.dump has not completed: not valid JSON
Partial == [st |-> "partial", data |-> <<>>]
Written(d) == [st |-> "ok", data |-> d]

\* the list in the file, [] when the file is absent or is not valid JSON
load_json_games(f) == IF f.st = "ok" THEN f.data ELSE <<>>

\* mutant of SortKey: the names are compared as they are, upper case first
SortKey_cased(g) == g.Name

\* the sort key of save_all_games_from_db
SortKey(g) == lower(g.Name)

\* s is sorted by key: g goes behind every element whose key is not greater (stable)
InsertSorted(s, g) ==
    LET k == Cardinality({i \in 1..Len(s) : ~StrLess(SortKey(g), SortKey(s[i]))})
    IN  SubSeq(s, 1, k) \o <<g>> \o SubSeq(s, k + 1, Len(s))

\* sorted(games, key=...) of the first n elements
RECURSIVE SortedPrefix(_, _)
SortedPrefix(games, n) ==
    IF n = 0 THEN <<>> ELSE InsertSorted(SortedPrefix(games, n - 1), games[n])

\* games_sorted of save_all_games_from_db: SELECT Name, Url FROM games, sorted
games_sorted(c) ==
    SortedPrefix([i \in 1..Len(c.games) |-> Game(c.games[i].Name, c.games[i].Url)],
                 Len(c.games))

InFeed(feed, url) == \E i \in 1..Len(feed) : feed[i].Url = url

\* mutant of truly_new: nothing is filtered out
truly_new_unfiltered(entries, existing) == entries

\* truly_new = [g for g in new_entries if g["Url"] not in existing_urls]
RECURSIVE truly_new(_, _)
truly_new(entries, existing) ==
    IF entries = <<>> THEN <<>>
    ELSE IF InFeed(existing, Head(entries).Url) THEN truly_new(Tail(entries), existing)
    ELSE <<Head(entries)>> \o truly_new(Tail(entries), existing)

\* mutant of combined: the new entries are appended
combined_appended(entries, existing) == existing \o truly_new(entries, existing)

\* combined = truly_new + existing_new
combined(entries, existing) == truly_new(entries, existing) \o existing

-----------------------------------------------------------------------------
(* State *)

Rest == {"idle", "done", "failed"}

Init ==
    /\ db = EmptyDb
    /\ conn = EmptyDb
    /\ allFile = Absent
    /\ newFile = Absent
    /\ clock = 0
    /\ pc = "idle"
    /\ results = <<>>
    /\ run_id = 0
    /\ run_at = 0
    /\ first_run = FALSE
    /\ new_entries = <<>>
    /\ pending = <<>>
    /\ pre = [db |-> EmptyDb, allFile |-> Absent, newFile |-> Absent]
    /\ touched = {}
    /\ created = {}
    /\ began = <<>>
    /\ html = <<>>
    /\ raw_text = <<>>
    /\ text = <<>>

Begin ==
    /\ pre' = [db |-> db, allFile |-> allFile, newFile |-> newFile]
    /\ touched' = {}
    /\ pending' = <<>>

\* run_persist up to the loop: run_at, pre_count, create_run (which commits), first_run
CallRunPersist(res) ==
    /\ pc \in Rest
    /\ clock < MaxRuns
    /\ clock' = clock + 1
    /\ run_at' = clock + 1
    /\ conn' = create_run(conn, clock + 1, Len(res))
    /\ db' = conn'
    /\ run_id' = Len(conn'.runs)
    /\ new_entries' = <<>>
    /\ first_run' = FirstRun(get_games_count(conn))
    /\ results' = res
    /\ pc' = "loop"
    /\ began' = Append(began, get_games_count(conn))
    /\ Begin
    /\ UNCHANGED <<allFile, newFile, created,
                   html, raw_text, text>>

\* run_persist: the loop over results, inside the connection's transaction
PersistLoop ==
    /\ pc = "loop"
    /\ LET out == PersistFrom([c |-> conn, ne |-> new_entries], results, 1,
                              run_id, run_at, first_run)
       IN  /\ conn' = out.c
           /\ new_entries' = out.ne
           /\ created' = created \cup
                  {<<run_id, u>> : u \in Urls(out.c.games) \ Urls(conn.games)}
    /\ pc' = "commit"
    /\ UNCHANGED <<db, allFile, newFile, clock, results, run_id, run_at, first_run,
                   pending, pre, touched, began, html, raw_text, text>>

\* run_persist: conn.commit() and return first_run, new_entries
PersistCommit ==
    /\ pc = "commit"
    /\ db' = conn
    /\ pc' = "returned"
    /\ UNCHANGED <<conn, allFile, newFile, clock, results, run_id, run_at, first_run,
                   new_entries, pending, pre, touched, created, began,
                   html, raw_text, text>>

\* an exception anywhere in a call: the connection is closed, which rolls its
\* pending transaction back; the files stay as they are and the call's locals are gone
Fail ==
    /\ pc \notin Rest
    /\ conn' = db
    /\ pc' = "failed"
    /\ results' = <<>>
    /\ run_id' = 0
    /\ run_at' = 0
    /\ first_run' = FALSE
    /\ new_entries' = <<>>
    /\ pending' = <<>>
    /\ UNCHANGED <<db, allFile, newFile, clock, pre, touched, created, began,
                   html, raw_text, text>>

-----------------------------------------------------------------------------
(* main *)

\* main with a non-empty scrape result: run_persist(conn, results)
MainRun == \E res \in ScrapeResults \ {<<>>} : CallRunPersist(res)

\* mutant of MainEmptyRun: main returns without recording the run
MainEmptyRun_unrecorded ==
    /\ pc \in Rest
    /\ clock < MaxRuns
    /\ clock' = clock + 1
    /\ results' = <<>>
    /\ new_entries' = <<>>
    /\ pc' = "done"
    /\ began' = Append(began, get_games_count(conn))
    /\ Begin
    /\ UNCHANGED <<db, conn, allFile, newFile, run_id, run_at, first_run, created,
                   html, raw_text, text>>

\* main with an empty scrape result: create_run(conn, now, 0), conn.commit(), return
MainEmptyRun ==
    /\ pc \in Rest
    /\ clock < MaxRuns
    /\ clock' = clock + 1
    /\ conn' = create_run(conn, clock + 1, 0)
    /\ db' = conn'
    /\ results' = <<>>
    /\ new_entries' = <<>>
    /\ pc' = "done"
    /\ began' = Append(began, get_games_count(conn))
    /\ Begin
    /\ UNCHANGED <<allFile, newFile, run_id, run_at, first_run, created,
                   html, raw_text, text>>

\* mutant of MainBranch: the snapshot and the feed are saved after every run
MainBranch_always_saves ==
    /\ pc = "returned"
    /\ pc' = "save_all"
    /\ UNCHANGED <<db, conn, allFile, newFile, clock, results, run_id, run_at,
                   first_run, new_entries, pending, pre, touched, created, began,
                   html, raw_text, text>>

\* main after run_persist returned: if first_run ... else if new_entries ... else
MainBranch ==
    /\ pc = "returned"
    /\ pc' = IF first_run THEN "save_all"
             ELSE IF new_entries # <<>> THEN "save_all" ELSE "done"
    /\ UNCHANGED <<db, conn, allFile, newFile, clock, results, run_id, run_at,
                   first_run, new_entries, pending, pre, touched, created, began,
                   html, raw_text, text>>

\* save_all_games_from_db up to open(path, "w"): the rows are read and sorted, the
\* file is truncated
SaveAllOpen ==
    /\ pc = "save_all"
    /\ pending' = games_sorted(conn)
    /\ allFile' = Partial
    /\ touched' = touched \cup {"all"}
    /\ pc' = "all_dump"
    /\ UNCHANGED <<db, conn, newFile, clock, results, run_id, run_at, first_run,
                   new_entries, pre, created, began, html, raw_text, text>>

\* save_all_games_from_db: json.dump completes; main goes on to save_new_games_file
\* unless this is the first run
SaveAllDump ==
    /\ pc = "all_dump"
    /\ allFile' = Written(pending)
    /\ pending' = <<>>
    /\ pc' = IF first_run THEN "done" ELSE "save_new"
    /\ UNCHANGED <<db, conn, newFile, clock, results, run_id, run_at, first_run,
                   new_entries, pre, touched, created, began, html, raw_text, text>>

\* mutant of SaveNewOpen: a feed file that cannot be parsed is left as it is
SaveNewOpen_keeps_corrupt ==
    /\ pc = "save_new"
    /\ IF \/ new_entries = <<>>
          \/ newFile.st = "partial"
          \/ truly_new(new_entries, load_json_games(newFile)) = <<>>
       THEN /\ pc' = "done"
            /\ UNCHANGED <<newFile, pending, touched>>
       ELSE /\ pending' = combined(new_entries, load_json_games(newFile))
            /\ newFile' = Partial
            /\ touched' = touched \cup {"new"}
            /\ pc' = "new_dump"
    /\ UNCHANGED <<db, conn, allFile, clock, results, run_id, run_at, first_run,
                   new_entries, pre, created, began, html, raw_text, text>>

\* save_new_games_file up to open(path, "w"): the two early returns, else the feed
\* is loaded, combined is computed and the file is truncated
SaveNewOpen ==
    /\ pc = "save_new"
    /\ IF new_entries = <<>> \/ truly_new(new_entries, load_json_games(newFile)) = <<>>
       THEN /\ pc' = "done"
            /\ UNCHANGED <<newFile, pending, touched>>
       ELSE /\ pending' = combined(new_entries, load_json_games(newFile))
            /\ newFile' = Partial
            /\ touched' = touched \cup {"new"}
            /\ pc' = "new_dump"
    /\ UNCHANGED <<db, conn, allFile, clock, results, run_id, run_at, first_run,
                   new_entries, pre, created, began, html, raw_text, text>>

\* save_new_games_file: json.dump completes
SaveNewDump ==
    /\ pc = "new_dump"
    /\ newFile' = Written(pending)
    /\ pending' = <<>>
    /\ pc' = "done"
    /\ UNCHANGED <<db, conn, allFile, clock, results, run_id, run_at, first_run,
                   new_entries, pre, touched, created, began, html, raw_text, text>>

Next ==
    \/ MainRun
    \/ MainEmptyRun
    \/ PersistLoop
    \/ PersistCommit
    \/ MainBranch
    \/ SaveAllOpen
    \/ SaveAllDump
    \/ SaveNewOpen
    \/ SaveNewDump
    \/ Fail

\* the pipeline: runs of main, each of which may fail at any step
Spec == Init /\ [][Next]_vars

-----------------------------------------------------------------------------
(* Direct calls, as test_scraper.py makes them *)

\* run_persist(conn, results) with any list of records
DirectRunPersist == \E res \in AnyResults : CallRunPersist(res)

\* the caller has the returned pair
DirectReturn ==
    /\ pc = "returned"
    /\ pc' = "done"
    /\ UNCHANGED <<db, conn, allFile, newFile, clock, results, run_id, run_at,
                   first_run, new_entries, pending, pre, touched, created, began,
                   html, raw_text, text>>

PersistNext ==
    \/ DirectRunPersist
    \/ PersistLoop
    \/ PersistCommit
    \/ DirectReturn
    \/ Fail

\* calls of run_persist on one store, each of which may fail
PersistSpec == Init /\ [][PersistNext]_vars

\* save_new_games_file(new_entries, path) with any list of records
DirectSaveNew ==
    \E entries \in AnyEntries :
        /\ pc \in Rest
        /\ new_entries' = entries
        /\ pc' = "save_new"
        /\ pre' = [db |-> db, allFile |-> allFile, newFile |-> newFile]
        /\ touched' = IF pc = "done" /\ entries = new_entries THEN {"repeat"} ELSE {}
        /\ pending' = <<>>
        /\ UNCHANGED <<db, conn, allFile, newFile, clock, results, run_id, run_at,
                       first_run, created, began, html, raw_text, text>>

FeedNext ==
    \/ DirectSaveNew
    \/ SaveNewOpen
    \/ SaveNewDump
    \/ Fail

\* calls of save_new_games_file on one feed file, each of which may fail
FeedSpec == Init /\ [][FeedNext]_vars

-----------------------------------------------------------------------------
(* Properties of run_persist, checked under PersistSpec *)

\* a url with its trailing slashes dropped, stated without rstrip
Stripped(u) ==
    LET keep == {i \in 1..Len(u) : \E j \in i..Len(u) : u[j] # "/"}
    IN  SubSeq(u, 1, Cardinality(keep))

\* the candidates of res from index i on whose stripped url is not empty, is not in
\* old and occurs at no earlier index of res, each with its stripped url
RECURSIVE FirstSightings(_, _, _)
FirstSightings(res, old, i) ==
    IF i > Len(res) THEN <<>>
    ELSE LET u == Stripped(res[i].Url)
             fresh == /\ u # <<>>
                      /\ u \notin old
                      /\ \A j \in 1..(i - 1) : Stripped(res[j].Url) # u
         IN  (IF fresh THEN <<Game(res[i].Name, u)>> ELSE <<>>)
                 \o FirstSightings(res, old, i + 1)

\* the stripped, non-empty urls of a batch
BatchUrls(res) == {Stripped(res[i].Url) : i \in 1..Len(res)} \ {<<>>}

\* C1: when run_persist returns from a call that began with an empty games table, it
\* returns first_run = True and new_entries = [], whatever the batch
FirstRunDetection ==
    (pc = "returned" /\ pre.db.games = <<>>) => (first_run /\ new_entries = <<>>)

\* C1's case: a call on an empty games table has returned for a batch of the largest
\* size that repeats a url (once with a trailing slash)
FirstRunDetectionWitness ==
    /\ pc = "returned"
    /\ pre.db.games = <<>>
    /\ Len(results) = MaxBatch
    /\ \E i, j \in 1..Len(results) :
           i # j /\ results[i].Url = <<"a">> /\ results[j].Url = <<"a", "/">>

\* C2: when run_persist returns from a call that began with a non-empty games table,
\* first_run is False, new_entries is the first sightings of the urls the table did not
\* hold, in batch order, and the table's urls are the prior ones and the batch's
DeltaCorrectness ==
    (pc = "returned" /\ pre.db.games # <<>>) =>
        /\ ~first_run
        /\ new_entries = FirstSightings(results, Urls(pre.db.games), 1)
        /\ Urls(db.games) = Urls(pre.db.games) \cup BatchUrls(results)

\* C2's case: a call on a non-empty table has returned one new entry for a batch that
\* holds the new url twice
DeltaCorrectnessWitness ==
    /\ pc = "returned"
    /\ pre.db.games # <<>>
    /\ Len(new_entries) = 1
    /\ Len(results) = MaxBatch
    /\ \A i \in 1..Len(results) : Stripped(results[i].Url) = new_entries[1].Url

\* C3: an association row has is_new only if its url's games row was inserted by the
\* row's own run and that run began with a non-empty games table
IsNewOnlyForCreated ==
    \A c \in {db, conn} : \A i \in 1..Len(c.run_games) :
        c.run_games[i].is_new =>
            /\ <<c.run_games[i].run_id, c.run_games[i].Url>> \in created
            /\ began[c.run_games[i].run_id] > 0

\* C3's case: a committed run holds a row flagged new and a row not flagged
IsNewOnlyForCreatedWitness ==
    \E i, j \in 1..Len(db.run_games) :
        /\ db.run_games[i].run_id = db.run_games[j].run_id
        /\ db.run_games[i].is_new
        /\ ~db.run_games[j].is_new

\* C4: the games table never holds two rows for one url, where urls that differ only
\* in trailing slashes are one url
CatalogUniqueness ==
    \A c \in {db, conn} : \A i, j \in 1..Len(c.games) :
        Stripped(c.games[i].Url) = Stripped(c.games[j].Url) => i = j

\* C4's case: two runs are committed, one batch held a url with and without its
\* trailing slash, and the table has one row for it
CatalogUniquenessWitness ==
    /\ pc = "returned"
    /\ Len(db.runs) >= 2
    /\ Len(results) = 2
    /\ results[1].Url = <<"a", "/">>
    /\ results[2].Url = <<"a">>
    /\ Cardinality({i \in 1..Len(db.games) : db.games[i].Url = <<"a">>}) = 1

-----------------------------------------------------------------------------
(* Properties of a run of main, checked under Spec *)

\* C5: a run that fails before run_persist's final commit leaves nothing of itself in
\* the durable store: no runs row, no games row, no run_games row
RunAtomicity ==
    [][((pc = "loop" \/ pc = "commit") /\ pc' = "failed") => db' = pre.db]_vars

\* C6: New.Games.json is changed or opened for writing only by a run that began with
\* a non-empty games table, was not a first run and had a non-empty new_entries
FeedOnlyOnDelta ==
    /\ newFile # pre.newFile => "new" \in touched
    /\ "new" \in touched => pre.db.games # <<>>
    /\ ("new" \in touched /\ pc # "failed") => (~first_run /\ new_entries # <<>>)

\* C6's case: a first run with a full batch has completed and written the snapshot,
\* and there is no feed file
FeedOnlyOnDeltaWitness ==
    /\ pc = "done"
    /\ pre.db.games = <<>>
    /\ Len(results) = MaxBatch
    /\ allFile.st = "ok"
    /\ newFile = Absent

SnapshotWritten == "all" \in touched /\ allFile.st = "ok"

SnapshotUntouched == "all" \notin touched /\ allFile = pre.allFile

\* C7 as stated: after a run that began with an empty games table the snapshot is
\* written; after a later run it is written if new_entries is not empty and untouched
\* if it is
SnapshotPolicyEveryFirstRun ==
    pc = "done" =>
        /\ pre.db.games = <<>> => SnapshotWritten
        /\ (pre.db.games # <<>> /\ new_entries # <<>>) => SnapshotWritten
        /\ (pre.db.games # <<>> /\ new_entries = <<>>) => SnapshotUntouched

\* C7 amended: as stated, but for the runs that began with an empty games table only
\* those whose batch is not empty write the snapshot
SnapshotPolicy ==
    pc = "done" =>
        /\ (pre.db.games = <<>> /\ results # <<>>) => SnapshotWritten
        /\ (pre.db.games # <<>> /\ new_entries # <<>>) => SnapshotWritten
        /\ (pre.db.games # <<>> /\ new_entries = <<>>) => SnapshotUntouched

\* C7's case: a run that found something new has written the snapshot and the run
\* after it, which found nothing new, has left it as it was
SnapshotPolicyWitness ==
    /\ pc = "done"
    /\ Len(db.runs) = 3
    /\ results # <<>>
    /\ new_entries = <<>>
    /\ allFile.st = "ok"
    /\ Len(allFile.data) = 3
    /\ "all" \notin touched

\* C8: when save_new_games_file has written the feed, the feed is the new entries
\* whose url the loaded feed did not hold, in their order, followed by the loaded
\* feed; and a feed readable before and after a call is a suffix of what it became
FeedPrepend ==
    LET old == IF pre.newFile.st = "ok" THEN pre.newFile.data ELSE <<>>
    IN  /\ (pc = "done" /\ "new" \in touched) =>
              newFile = Written(SelectSeq(new_entries, LAMBDA g : ~InFeed(old, g.Url))
                                    \o old)
        /\ (pre.newFile.st = "ok" /\ newFile.st = "ok") =>
              /\ Len(newFile.data) >= Len(old)
              /\ SubSeq(newFile.data, Len(newFile.data) - Len(old) + 1,
                        Len(newFile.data)) = old

\* C8's case: a run has put its new entries in front of a feed that held some
FeedPrependWitness ==
    /\ pc = "done"
    /\ "new" \in touched
    /\ pre.newFile.st = "ok"
    /\ pre.newFile.data # <<>>
    /\ Len(newFile.data) > Len(pre.newFile.data)

\* C10: a run of main with an empty scrape result adds one runs row, with
\* snapshot_count 0, and changes nothing else: not games, not run_games, no artifact
EmptyBatchRun ==
    (pc = "done" /\ results = <<>>) =>
        /\ Len(db.runs) = Len(pre.db.runs) + 1
        /\ SubSeq(db.runs, 1, Len(pre.db.runs)) = pre.db.runs
        /\ db.runs[Len(db.runs)].snapshot_count = 0
        /\ db.games = pre.db.games
        /\ db.run_games = pre.db.run_games
        /\ touched = {}
        /\ allFile = pre.allFile
        /\ newFile = pre.newFile

\* C10's case: an empty run has completed on a store that held games and a snapshot
EmptyBatchRunWitness ==
    /\ pc = "done"
    /\ results = <<>>
    /\ pre.db.games # <<>>
    /\ allFile.st = "ok"

-----------------------------------------------------------------------------
(* Properties of save_new_games_file, checked under FeedSpec *)

Feed == load_json_games(newFile)

\* C9 as stated: a second call with the same new_entries leaves the feed as the first
\* left it, a call whose entries are all in the feed leaves the file untouched, and
\* the feed never holds two entries with one url
FeedMergeNeverDuplicates ==
    /\ (pc = "done" /\ "repeat" \in touched) => newFile = pre.newFile
    /\ (pc = "done" /\ \A i \in 1..Len(new_entries) : InFeed(load_json_games(pre.newFile),
                                                             new_entries[i].Url))
           => (newFile = pre.newFile /\ "new" \notin touched)
    /\ DistinctUrls(Feed)

\* C9 amended: as stated, but the feed holds no two entries with one url only when
\* neither new_entries nor the feed loaded did
FeedMergeIdempotence ==
    /\ (pc = "done" /\ "repeat" \in touched) => newFile = pre.newFile
    /\ (pc = "done" /\ \A i \in 1..Len(new_entries) : InFeed(load_json_games(pre.newFile),
                                                             new_entries[i].Url))
           => (newFile = pre.newFile /\ "new" \notin touched)
    /\ (pc = "done" /\ DistinctUrls(new_entries)
            /\ DistinctUrls(load_json_games(pre.newFile))) => DistinctUrls(Feed)

\* C9's case: a call that wrote entries in front of a feed has been repeated with the
\* same entries and has completed
FeedMergeIdempotenceWitness ==
    /\ pc = "done"
    /\ "repeat" \in touched
    /\ Len(new_entries) = MaxBatch
    /\ Len(Feed) > Len(new_entries)
    /\ \A i \in 1..Len(new_entries) : Feed[i] = new_entries[i]

-----------------------------------------------------------------------------
(* Properties of the snapshot, checked under Spec *)

\* the names of the records of s, lowercased, never go down from one record to the next
NonDecreasing(s) ==
    \A i \in 1..(Len(s) - 1) : ~StrLess(lower(s[i + 1].Name), lower(s[i].Name))

\* C11: the list save_all_games_from_db is about to dump, and every snapshot it has
\* written, is non-decreasing in the lowercased Name from each record to the next
SnapshotSorted ==
    /\ pc = "all_dump" => NonDecreasing(pending)
    /\ allFile.st = "ok" => NonDecreasing(allFile.data)

\* C11's case: a written snapshot of three records has a lower-case name in front of
\* an upper-case one, the reverse of their code point order
SnapshotSortedWitness ==
    /\ allFile.st = "ok"
    /\ "all" \in touched
    /\ Len(allFile.data) = 3
    /\ \E i \in 1..2 : allFile.data[i].Name = <<97>> /\ allFile.data[i + 1].Name = <<66>>

\* the {Name, Url} records of the games table
CatalogRecords(c) == {Game(c.games[i].Name, c.games[i].Url) : i \in 1..Len(c.games)}

\* C12: after every run of main that completes, earlier runs having failed at any
\* step or not, the snapshot of a non-empty games table is a readable file that holds
\* one record for each games row and no other record
SnapshotSynchronized ==
    (pc = "done" /\ db.games # <<>>) =>
        /\ allFile.st = "ok"
        /\ Len(allFile.data) = Len(db.games)
        /\ {allFile.data[i] : i \in 1..Len(allFile.data)} = CatalogRecords(db)

-----------------------------------------------------------------------------
(* Calls of clean_name *)

\* the longest raw_text made of the characters of TextChars
MaxLen == 4

\* "A", " ", "(", ")", "-"
TextChars == {65, 32, 40, 41, 45}

\* the arguments of test_clean_name and two names with a character reference:
\*   'Game Name'
\*   'Game Name free download'
\*   'Game Name Free Download'
\*   'Game Name (2021)'
\*   '  Game   Name  '
\*   'R&amp;D'
\*   'R&amp;amp;D'
TestedTexts ==
    { <<71, 97, 109, 101, 32, 78, 97, 109, 101>>,
      <<71, 97, 109, 101, 32, 78, 97, 109, 101, 32, 102, 114, 101, 101, 32, 100, 111, 119, 110, 108, 111, 97, 100>>,
      <<71, 97, 109, 101, 32, 78, 97, 109, 101, 32, 70, 114, 101, 101, 32, 68, 111, 119, 110, 108, 111, 97, 100>>,
      <<71, 97, 109, 101, 32, 78, 97, 109, 101, 32, 40, 50, 48, 50, 49, 41>>,
      <<32, 32, 71, 97, 109, 101, 32, 32, 32, 78, 97, 109, 101, 32, 32>>,
      <<82, 38, 97, 109, 112, 59, 68>>,
      <<82, 38, 97, 109, 112, 59, 97, 109, 112, 59, 68>> }

RawTexts == SeqsUpTo(TextChars, MaxLen) \cup TestedTexts

\* clean_name(raw_text) for any raw_text
CallCleanName ==
    \E s \in RawTexts :
        /\ pc = "idle"
        /\ text = <<>>
        /\ raw_text' = s
        /\ text' = <<clean_name(s)>>
        /\ UNCHANGED <<db, conn, allFile, newFile, clock, pc, results, run_id, run_at,
                       first_run, new_entries, pending, pre, touched, created, began,
                       html>>

\* clean_name of what clean_name returned
CallCleanNameAgain ==
    /\ Len(text) = 1
    /\ text' = Append(text, clean_name(text[1]))
    /\ UNCHANGED <<db, conn, allFile, newFile, clock, pc, results, run_id, run_at,
                   first_run, new_entries, pending, pre, touched, created, began,
                   html, raw_text>>

CleanNext ==
    \/ CallCleanName
    \/ CallCleanNameAgain

\* clean_name applied to a text, and then to its own result
CleanSpec == Init /\ [][CleanNext]_vars

\* C14: clean_name returns its own result unchanged: clean_name(clean_name(x)) is
\* clean_name(x) for every text x
CleanNameIdempotent == Len(text) = 2 => text[2] = text[1]

-----------------------------------------------------------------------------
(* Calls of extract_games_from_html *)

\* the most anchors in an html
MaxAnchors == 2

\* hrefs that hold the marker "-free-download":
\*   '/g-free-download'
\*   '/g-free-download/'
\*   'https://steamrip.com/-free-download'
\*   'https://steamrip.com/g-Free-Download/'
AnchorHrefs ==
    { <<47, 103, 45, 102, 114, 101, 101, 45, 100, 111, 119, 110, 108, 111, 97, 100>>,
      <<47, 103, 45, 102, 114, 101, 101, 45, 100, 111, 119, 110, 108, 111, 97, 100, 47>>,
      <<104, 116, 116, 112, 115, 58, 47, 47, 115, 116, 101, 97, 109, 114, 105, 112, 46, 99, 111, 109, 47, 45, 102, 114, 101, 101, 45, 100, 111, 119, 110, 108, 111, 97, 100>>,
      <<104, 116, 116, 112, 115, 58, 47, 47, 115, 116, 101, 97, 109, 114, 105, 112, 46, 99, 111, 109, 47, 103, 45, 70, 114, 101, 101, 45, 68, 111, 119, 110, 108, 111, 97, 100, 47>> }

\* anchor texts:
\*   ''
\*   'A'
\*   'B (1)'
\*   '(x)'
AnchorTexts ==
    { <<>>,
      <<65>>,
      <<66, 32, 40, 49, 41>>,
      <<40, 120, 41>> }

Htmls == SeqsUpTo([href : AnchorHrefs, text : AnchorTexts], MaxAnchors)

\* extract_games_from_html(html) for any html
CallExtract ==
    \E h \in Htmls :
        /\ pc = "idle"
        /\ text = <<>>
        /\ html' = h
        /\ results' = extract_games_from_html(h)
        /\ pc' = "done"
        /\ UNCHANGED <<db, conn, allFile, newFile, clock, run_id, run_at, first_run,
                       new_entries, pending, pre, touched, created, began, raw_text,
                       text>>

ExtractNext == CallExtract

\* one call of extract_games_from_html
ExtractSpec == Init /\ [][ExtractNext]_vars

\* the url and the name the i-th anchor of html stands for
UrlAt(i) == href_of(strip(html[i].href, WhiteSpace))
NameAt(i) == name_of(html[i])

\* the anchors of html with url u, and those of them that have a name
AnchorsOf(u) == {i \in 1..Len(html) : UrlAt(i) = u}
NamedAnchorsOf(u) == {i \in AnchorsOf(u) : NameAt(i) # <<>>}

First(S) == CHOOSE i \in S : \A j \in S : i <= j

\* C15 as stated: the result has at most one record for a url, and the record's name
\* is that of the first anchor of the html with that url
FirstAnchorKept ==
    pc = "done" =>
        /\ DistinctUrls(results)
        /\ \A k \in 1..Len(results) :
               /\ AnchorsOf(results[k].Url) # {}
               /\ results[k].Name = NameAt(First(AnchorsOf(results[k].Url)))

\* C15 amended: the result has at most one record for a url, and the record's name
\* is that of the first anchor with that url among the anchors that have a name
FirstNamedAnchorKept ==
    pc = "done" =>
        /\ DistinctUrls(results)
        /\ \A k \in 1..Len(results) :
               /\ NamedAnchorsOf(results[k].Url) # {}
               /\ results[k].Name = NameAt(First(NamedAnchorsOf(results[k].Url)))

\* C15's case: two anchors whose hrefs differ in the trailing slash and whose texts
\* give different names have been extracted into one record, the first one's
FirstNamedAnchorKeptWitness ==
    /\ pc = "done"
    /\ Len(html) = 2
    /\ html[1].href # html[2].href
    /\ UrlAt(1) = UrlAt(2)
    /\ NameAt(1) # <<>>
    /\ NameAt(2) # <<>>
    /\ NameAt(1) # NameAt(2)
    /\ results = <<Game(NameAt(1), UrlAt(1))>>

\* C16: every record of the result has a Name and a Url that are not empty, and comes
\* from an anchor whose name, after clean_name and the slug fallback, and whose url
\* are not empty; no other anchor gives a record
OnlyNamedRecords ==
    pc = "done" =>
        /\ \A k \in 1..Len(results) :
               /\ results[k].Name # <<>>
               /\ results[k].Url # <<>>
               /\ \E i \in 1..Len(html) :
                      results[k] = Game(NameAt(i), UrlAt(i))
        /\ Len(results) <=
               Cardinality({i \in 1..Len(html) : NameAt(i) # <<>> /\ UrlAt(i) # <<>>})

\* C16's case: of two anchors the one with no text and no name in its slug has been
\* dropped and the other has given the only record
OnlyNamedRecordsWitness ==
    /\ pc = "done"
    /\ Len(html) = 2
    /\ html[1].text = <<>>
    /\ NameAt(1) = <<>>
    /\ NameAt(2) # <<>>
    /\ results = <<Game(NameAt(2), UrlAt(2))>>

-----------------------------------------------------------------------------
(* Properties of the store *)

\* C17: a url of the games table stays in the games table: no step of a run, failed
\* or not, takes a row away, so the set of urls only grows
CatalogPermanence ==
    [][/\ Urls(db.games) \subseteq Urls(db'.games)
       /\ Len(db.games) <= Len(db'.games)]_vars

\* C17's case: the third run has committed a batch that lacks a url the games table
\* held before, and the table still holds it
CatalogPermanenceWitness ==
    /\ pc = "returned"
    /\ Len(db.runs) = 3
    /\ \E u \in Urls(pre.db.games) :
           /\ \A i \in 1..Len(results) : results[i].Url # u
           /\ u \in Urls(db.games)
    /\ Len(db.games) > Len(pre.db.games)

\* C18: in the committed store every run_games row has the id of a runs row and the
\* url of a games row
ReferentialIntegrity ==
    \A i \in 1..Len(db.run_games) :
        /\ \E k \in 1..Len(db.runs) : db.runs[k].id = db.run_games[i].run_id
        /\ db.run_games[i].Url \in Urls(db.games)

\* C18's case: a run has failed after its runs row was committed, and the store
\* holds the rows of the run before it and of the run after it
ReferentialIntegrityWitness ==
    /\ Len(db.runs) = 3
    /\ \E i, j \in 1..Len(db.run_games) :
           db.run_games[i].run_id = 1 /\ db.run_games[j].run_id = 3
    /\ \A i \in 1..Len(db.run_games) : db.run_games[i].run_id # 2

\* C19: when run_persist has gone through a batch, every games row the call found
\* has the Name, the Url and the first_seen it had; a row whose url is in the batch
\* has the run's run_at as last_seen, and the run has a run_games row, not flagged
\* new, with each name the url was observed with; a row whose url is not in the batch
\* is as it was
StickyName ==
    (pc = "commit" \/ pc = "returned") =>
        \A i \in 1..Len(pre.db.games) :
            LET old == pre.db.games[i]
                now == conn.games[i]
            IN  /\ now.Name = old.Name
                /\ now.Url = old.Url
                /\ now.first_seen = old.first_seen
                /\ old.Url \notin BatchUrls(results) => now = old
                /\ old.Url \in BatchUrls(results) => now.last_seen = run_at
                /\ \A j \in 1..Len(results) :
                       Stripped(results[j].Url) = old.Url =>
                           \E k \in 1..Len(conn.run_games) :
                               conn.run_games[k] = [run_id |-> run_id,
                                                    Name |-> results[j].Name,
                                                    Url |-> old.Url, is_new |-> FALSE]

\* C19's case: a call has returned for a batch that holds the url of a games row
\* under another name, and the row has the name it had
StickyNameWitness ==
    /\ pc = "returned"
    /\ \E i \in 1..Len(pre.db.games) : \E j \in 1..Len(results) :
           /\ Stripped(results[j].Url) = pre.db.games[i].Url
           /\ results[j].Name # pre.db.games[i].Name
           /\ db.games[i].Name = pre.db.games[i].Name
           /\ db.games[i].last_seen > pre.db.games[i].last_seen

\* C20: no step changes the first_seen of a committed games row; a row that a step
\* commits has the run_at of the run that inserted it as first_seen; and first_seen
\* is never later than last_seen, in the committed store and in the connection's view
FirstSeenImmutable ==
    [][/\ \A i \in 1..Len(db.games) :
              /\ i <= Len(db'.games)
              /\ db'.games[i].Url = db.games[i].Url
              /\ db'.games[i].first_seen = db.games[i].first_seen
       /\ \A i \in (Len(db.games) + 1)..Len(db'.games) :
              /\ <<run_id, db'.games[i].Url>> \in created
              /\ db'.games[i].first_seen = db'.runs[run_id].run_at
       /\ \A c \in {db', conn'} : \A i \in 1..Len(c.games) :
              c.games[i].first_seen <= c.games[i].last_seen]_vars

\* C20's case: a games row inserted by the first run has been observed again by the
\* third run, in a batch that holds its url twice, and has the first run's run_at as
\* first_seen
FirstSeenImmutableWitness ==
    /\ pc = "returned"
    /\ Len(db.runs) = 3
    /\ Len(results) = 2
    /\ Stripped(results[1].Url) = Stripped(results[2].Url)
    /\ \E i \in 1..Len(db.games) :
           /\ db.games[i].Url = Stripped(results[1].Url)
           /\ db.games[i].first_seen = db.runs[1].run_at
           /\ db.games[i].last_seen = db.runs[3].run_at

-----------------------------------------------------------------------------
(* Properties of the artifacts over runs of main, checked under Spec *)

\* C21: neither All.Games.json nor New.Games.json is ever a truncated or partly
\* written file, whichever step a reader looks at or a run dies at
NeverPartial == allFile.st # "partial" /\ newFile.st # "partial"

\* the run that inserted the games row g: the one whose run_at is the row's first_seen
CreatingRun(g) == CHOOSE r \in 1..Len(db.runs) : db.runs[r].run_at = g.first_seen

\* the committed games rows inserted by a run that began with a non-empty games table
Discovered == {i \in 1..Len(db.games) : began[CreatingRun(db.games[i])] > 0}

\* C22: whenever a run of main has completed, runs before it having failed at any
\* step or not, the feed holds the url of every games row that was inserted by a run
\* that was not a first run
FeedComplete ==
    pc = "done" => \A i \in Discovered : InFeed(Feed, db.games[i].Url)

\* the games rows, committed or not, inserted by a run that began with an empty games
\* table
Baseline == {i \in 1..Len(conn.games) : began[CreatingRun(conn.games[i])] = 0}

\* C23: every url of the feed is the url of a committed games row, and the url of a
\* games row that a first run inserted is never in the feed, in the list about to be
\* dumped as the feed, or in a run's new_entries
BaselineExclusion ==
    /\ \A k \in 1..Len(Feed) : Feed[k].Url \in Urls(db.games)
    /\ \A i \in Baseline :
           /\ ~InFeed(Feed, conn.games[i].Url)
           /\ ~InFeed(new_entries, conn.games[i].Url)
           /\ pc = "new_dump" => ~InFeed(pending, conn.games[i].Url)

\* C23's case: a run has observed a row of the baseline again, together with a url
\* the table lacked, and has written the feed
BaselineExclusionWitness ==
    /\ pc = "done"
    /\ "new" \in touched
    /\ Feed # <<>>
    /\ Len(results) = MaxBatch
    /\ \E i \in Baseline : \E j \in 1..Len(results) : results[j].Url = conn.games[i].Url

-----------------------------------------------------------------------------
(* Properties of the run history, checked under PersistSpec *)

\* the run_games rows of c that are flagged new, as records, in the order of the table
FlaggedNew(c, rid) ==
    LET rows == SelectSeq(c.run_games, LAMBDA row : row.run_id = rid /\ row.is_new)
    IN  [k \in 1..Len(rows) |-> Game(rows[k].Name, rows[k].Url)]

\* C24: no url has two run_games rows flagged new, in the committed store or in the
\* connection's view; the new_entries a call returns is the rows its run has flagged,
\* holds no url twice, and holds no url that a row of an earlier run has flagged
SingleDiscovery ==
    /\ \A c \in {db, conn} : \A i, j \in 1..Len(c.run_games) :
           (/\ c.run_games[i].is_new
            /\ c.run_games[j].is_new
            /\ c.run_games[i].Url = c.run_games[j].Url) => i = j
    /\ DistinctUrls(new_entries)
    /\ pc = "returned" => new_entries = FlaggedNew(db, run_id)
    /\ \A k \in 1..Len(new_entries) : \A i \in 1..Len(pre.db.run_games) :
           pre.db.run_games[i].is_new => pre.db.run_games[i].Url # new_entries[k].Url

\* C24's case: the third run has returned one new entry for a batch that holds the
\* new url twice, after the run before it had inserted that url and failed
SingleDiscoveryWitness ==
    /\ pc = "returned"
    /\ Len(db.runs) = 3
    /\ Len(results) = 2
    /\ results[1].Url # results[2].Url
    /\ Stripped(results[1].Url) = Stripped(results[2].Url)
    /\ Len(new_entries) = 1
    /\ <<2, new_entries[1].Url>> \in created
    /\ FlaggedNew(db, 3) = new_entries

=============================================================================
